---- MODULE Spec2Model ----
(***************************************************************************)
(* Model of pony/dbproviders/postgres.py: the per-thread connection Pool,  *)
(* PGTable.create, the Int and Decimal converters and the BYTEA codec of   *)
(* BlobConverter.                                                          *)
(***************************************************************************)
EXTENDS Integers, Sequences, FiniteSets, TLC

\* ------------------------------------------------------------------------
\* Bounds
\* ------------------------------------------------------------------------
NumContexts == 2   \* threads using the same Pool object
MaxConns == 2      \* connections the driver's factory can create in a run
NumTables == 2     \* tables of the schema
MaxInt == 2        \* integer bounds and values range over -MaxInt..MaxInt
MaxPrec == 2       \* precision and scale arguments range over 0..MaxPrec
MaxHalves == 3     \* decimal bounds and values range over -MaxHalves/2..MaxHalves/2
MaxBlobLen == 4    \* longest byte sequence given to the BYTEA codec

\* ------------------------------------------------------------------------
\* State
\* ------------------------------------------------------------------------
VARIABLES
    con,      \* Pool: pool.con of each thread (Pool is thread-local), None = 0
    nconn,    \* driver: number of connections pgdb.connect has created
    cstate,   \* driver: per connection "absent" | "open" | "closed" (close() was called)
    txn,      \* driver: per connection "idle" | "active" | "stale"
    opener,   \* per connection: the thread whose connect() created it (0 = none)
    last,     \* the most recent call on the pool and what its caller saw
    leased,   \* per thread: handle returned by connect since the last close / failed release
    tcommitted, \* database: the tables that exist, committed
    tcreated,   \* database: tables created in the connection's open transaction
    tstate,     \* connection used for DDL: "idle" | "active" | "aborted"
    tlast,      \* the most recent call on that connection and what the caller saw
    tok,        \* tables whose create returned normally in the open transaction
    iconv,      \* IntConverter: outcome of construction, min_val, max_val
    ilast,      \* IntConverter: the most recent validate call and its outcome
    dconv,      \* DecimalConverter: outcome of construction, precision, scale, min_val, max_val
    dlast,      \* DecimalConverter: the most recent validate call and its outcome
    bphase,     \* BlobConverter: "input" | "encoded" | "decoded"
    bval,       \* BlobConverter: the bytes given to py2sql
    bwire,      \* BlobConverter: the text py2sql returned
    bout        \* BlobConverter: what sql2py made of that text

poolVars == <<con, nconn, cstate, txn, opener, last, leased>>
tableVars == <<tcommitted, tcreated, tstate, tlast, tok>>

intVars == <<iconv, ilast>>
decVars == <<dconv, dlast>>
blobVars == <<bphase, bval, bwire, bout>>

\* the state outside each component
notPool == <<tableVars, intVars, decVars, blobVars>>
notTable == <<poolVars, intVars, decVars, blobVars>>
notInt == <<poolVars, tableVars, decVars, blobVars>>
notDec == <<poolVars, tableVars, intVars, blobVars>>
notBlob == <<poolVars, tableVars, intVars, decVars>>

vars == <<con, nconn, cstate, txn, opener, last, leased,
          tcommitted, tcreated, tstate, tlast, tok,
          iconv, ilast, dconv, dlast, bphase, bval, bwire, bout>>

None == 0
Contexts == 1..NumContexts
Handles == 1..MaxConns

\* what the calling thread c observes of a call: the driver calls it made, in order,
\* the exception it raised ("none" when it returned) and the value returned
Call(c, op, arg, calls, exc, ret) ==
    [ctx |-> c, op |-> op, arg |-> arg, calls |-> calls, exc |-> exc, ret |-> ret]

NoCall == Call(0, "none", None, <<>>, "none", None)

\* ------------------------------------------------------------------------
\* Pool
\* ------------------------------------------------------------------------
\* Pool.__init__ runs once per thread (threading.local): pool.con = None
PoolInit ==
    /\ con = [c \in Contexts |-> None]
    /\ nconn = 0
    /\ cstate = [h \in Handles |-> "absent"]
    /\ txn = [h \in Handles |-> "idle"]
    /\ opener = [h \in Handles |-> 0]
    /\ last = NoCall
    /\ leased = [c \in Contexts |-> None]

\* variant of connect without the "if pool.con is None" test
ConnectAlwaysOpens(c, ok) ==
    IF ok
    THEN /\ nconn < MaxConns
         /\ nconn' = nconn + 1
         /\ con' = [con EXCEPT ![c] = nconn + 1]
         /\ cstate' = [cstate EXCEPT ![nconn + 1] = "open"]
         /\ opener' = [opener EXCEPT ![nconn + 1] = c]
         /\ last' = Call(c, "connect", None, <<"connect">>, "none", nconn + 1)
         /\ leased' = [leased EXCEPT ![c] = nconn + 1]
         /\ UNCHANGED txn
    ELSE /\ last' = Call(c, "connect", None, <<"connect">>, "ConnectError", None)
         /\ UNCHANGED <<con, nconn, cstate, txn, opener, leased>>

\* variant of connect on a Pool whose con attribute is shared by all threads
ConnectShared(c, ok) ==
    LET held == {con[d] : d \in Contexts} \ {None} IN
    IF held # {}
    THEN \E h \in held :
            /\ con' = [con EXCEPT ![c] = h]
            /\ last' = Call(c, "connect", None, <<>>, "none", h)
            /\ leased' = [leased EXCEPT ![c] = h]
            /\ UNCHANGED <<nconn, cstate, txn, opener>>
    ELSE ConnectAlwaysOpens(c, ok)

\* pool.connect(); ok = whether pgdb.connect succeeds when it is called
Connect(c, ok) ==
    IF con[c] = None
    THEN IF ok
         THEN /\ nconn < MaxConns
              /\ nconn' = nconn + 1
              /\ con' = [con EXCEPT ![c] = nconn + 1]
              /\ cstate' = [cstate EXCEPT ![nconn + 1] = "open"]
              /\ opener' = [opener EXCEPT ![nconn + 1] = c]
              /\ last' = Call(c, "connect", None, <<"connect">>, "none", nconn + 1)
              /\ leased' = [leased EXCEPT ![c] = nconn + 1]
              /\ UNCHANGED txn
         ELSE /\ last' = Call(c, "connect", None, <<"connect">>, "ConnectError", None)
              /\ UNCHANGED <<con, nconn, cstate, txn, opener, leased>>
    ELSE /\ last' = Call(c, "connect", None, <<>>, "none", con[c])
         /\ leased' = [leased EXCEPT ![c] = con[c]]
         /\ UNCHANGED <<con, nconn, cstate, txn, opener>>

\* uncommitted work that a release left behind is stale
AfterFailedRollback(t) == IF t = "active" THEN "stale" ELSE t

\* pool.close(arg); clOk = whether con.close() succeeds
Close(c, arg, clOk) ==
    /\ leased' = [leased EXCEPT ![c] = None]
    /\ IF arg # con[c]
       THEN /\ last' = Call(c, "close", arg, <<>>, "AssertionError", None)
            /\ UNCHANGED <<con, nconn, cstate, txn, opener>>
       ELSE IF arg = None
       THEN /\ last' = Call(c, "close", arg, <<>>, "AttributeError", None)
            /\ UNCHANGED <<con, nconn, cstate, txn, opener>>
       ELSE /\ con' = [con EXCEPT ![c] = None]
            /\ cstate' = [cstate EXCEPT ![arg] = "closed"]
            /\ last' = Call(c, "close", arg, <<"close">>,
                                IF clOk THEN "none" ELSE "CloseError", None)
            /\ UNCHANGED <<nconn, txn, opener>>

\* variant of release that re-raises a failed rollback without closing
ReleaseKeepsOnFailure(c, arg, rbOk, clOk) ==
    IF arg # con[c] \/ arg = None
    THEN /\ last' = Call(c, "release", arg, <<>>,
                             IF arg # con[c] THEN "AssertionError" ELSE "AttributeError",
                             None)
         /\ leased' = [leased EXCEPT ![c] = None]
         /\ UNCHANGED <<con, nconn, cstate, txn, opener>>
    ELSE /\ txn' = [txn EXCEPT ![arg] =
                       IF rbOk THEN "idle" ELSE AfterFailedRollback(txn[arg])]
         /\ last' = Call(c, "release", arg, <<"rollback">>,
                             IF rbOk THEN "none" ELSE "RollbackError", None)
         /\ leased' = [leased EXCEPT ![c] = IF rbOk THEN leased[c] ELSE None]
         /\ UNCHANGED <<con, nconn, cstate, opener>>

\* pool.release(arg); rbOk, clOk = whether con.rollback(), con.close() succeed
Release(c, arg, rbOk, clOk) ==
    IF arg # con[c]
    THEN /\ last' = Call(c, "release", arg, <<>>, "AssertionError", None)
         /\ leased' = [leased EXCEPT ![c] = None]
         /\ UNCHANGED <<con, nconn, cstate, txn, opener>>
    ELSE IF arg = None
    THEN \* None.rollback raises, the handler's pool.close(None) raises too
         /\ last' = Call(c, "release", arg, <<>>, "AttributeError", None)
         /\ leased' = [leased EXCEPT ![c] = None]
         /\ UNCHANGED <<con, nconn, cstate, txn, opener>>
    ELSE IF rbOk
    THEN /\ txn' = [txn EXCEPT ![arg] = "idle"]
         /\ last' = Call(c, "release", arg, <<"rollback">>, "none", None)
         /\ UNCHANGED <<con, nconn, cstate, opener, leased>>
    ELSE \* except: pool.close(con); raise
         /\ txn' = [txn EXCEPT ![arg] = AfterFailedRollback(txn[arg])]
         /\ con' = [con EXCEPT ![c] = None]
         /\ cstate' = [cstate EXCEPT ![arg] = "closed"]
         /\ last' = Call(c, "release", arg, <<"rollback", "close">>,
                             IF clOk THEN "RollbackError" ELSE "CloseError", None)
         /\ leased' = [leased EXCEPT ![c] = None]
         /\ UNCHANGED <<nconn, opener>>

\* execute(cursor, sql, arguments) on the thread's connection
Execute(c) ==
    /\ con[c] # None
    /\ txn' = [txn EXCEPT ![con[c]] = "active"]
    /\ last' = Call(c, "execute", con[c], <<"execute">>, "none", None)
    /\ UNCHANGED <<con, nconn, cstate, opener, leased>>

Next ==
    \/ \E c \in Contexts, ok \in BOOLEAN : Connect(c, ok) /\ UNCHANGED notPool
    \/ \E c \in Contexts, arg \in 0..nconn, rbOk \in BOOLEAN, clOk \in BOOLEAN :
          \* close is only reached when the rollback has failed
          (rbOk => clOk) /\ Release(c, arg, rbOk, clOk) /\ UNCHANGED notPool
    \/ \E c \in Contexts, arg \in 0..nconn, clOk \in BOOLEAN :
          Close(c, arg, clOk) /\ UNCHANGED notPool
    \/ \E c \in Contexts : Execute(c) /\ UNCHANGED notPool

\* ------------------------------------------------------------------------
\* PGTable.create
\* ------------------------------------------------------------------------
Tables == 1..NumTables

Exc(type, msg) == [type |-> type, msg |-> msg]
NoExc == Exc("none", "")

TCall(op, table, failure, after, rb, exc) ==
    [op |-> op, table |-> table, failure |-> failure, after |-> after,
     rb |-> rb, exc |-> exc]

TableInit ==
    /\ tcommitted = {}
    /\ tcreated = {}
    /\ tstate = "idle"
    /\ tlast = TCall("none", 0, NoExc, "idle", "none", NoExc)
    /\ tok = {}

\* dbschema.Table.create: issues the CREATE statement on the connection.
\* mode = what goes wrong besides the table existing: "no" nothing, "db" the
\* database rejects the statement, "iface" the driver fails before sending.
\* The result is the exception raised (NoExc when the table was created)
\* and the transaction state the statement leaves.
BaseCreate(t, mode) ==
    IF mode = "iface"
    THEN [exc |-> Exc("InterfaceError", "connection lost"), after |-> tstate]
    ELSE IF tstate = "aborted"
    THEN [exc |-> Exc("DatabaseError", "current transaction is aborted"),
          after |-> "aborted"]
    ELSE IF t \in tcommitted \cup tcreated
    THEN [exc |-> Exc("DatabaseError", "already exists"), after |-> "aborted"]
    ELSE IF mode = "db"
    THEN [exc |-> Exc("DatabaseError", "permission denied"), after |-> "aborted"]
    ELSE [exc |-> NoExc, after |-> "active"]

\* except orm.DatabaseError, e: if 'already exists' not in e.args[0]: raise
AlreadyExists(e) == e.type = "DatabaseError" /\ e.msg = "already exists"

\* variant of the handler that recovers from every DatabaseError
AnyDatabaseError(e) == e.type = "DatabaseError"

\* try: dbschema.Table.create(...) returned normally
CreateReturns(t, r) ==
    /\ tcreated' = tcreated \cup {t}
    /\ tstate' = r.after
    /\ tok' = tok \cup {t}
    /\ tlast' = TCall("create", t, NoExc, r.after, "none", NoExc)
    /\ UNCHANGED tcommitted

\* the exception of dbschema.Table.create leaves PGTable.create
CreateRaises(t, r) ==
    /\ tstate' = r.after
    /\ tlast' = TCall("create", t, r.exc, r.after, "none", r.exc)
    /\ UNCHANGED <<tcommitted, tcreated, tok>>

\* orm.wrap_dbapi_exceptions(provider, connection.rollback)
CreateRollsBack(t, r, rbOk) ==
    IF rbOk
    THEN /\ tstate' = "idle"
         /\ tcreated' = {}
         /\ tok' = tok \cup {t}
         /\ tlast' = TCall("create", t, r.exc, r.after, "ok", NoExc)
         /\ UNCHANGED tcommitted
    ELSE /\ tstate' = r.after
         /\ tlast' = TCall("create", t, r.exc, r.after, "failed",
                           Exc("OperationalError", "rollback failed"))
         /\ UNCHANGED <<tcommitted, tcreated, tok>>

\* variant of PGTable.create that swallows 'already exists' without rollback
PGTableCreateNoRollback(t, mode, rbOk) ==
    LET r == BaseCreate(t, mode) IN
    IF r.exc = NoExc THEN CreateReturns(t, r)
    ELSE IF ~AlreadyExists(r.exc) THEN CreateRaises(t, r)
    ELSE /\ tstate' = r.after
         /\ tok' = tok \cup {t}
         /\ tlast' = TCall("create", t, r.exc, r.after, "none", NoExc)
         /\ UNCHANGED <<tcommitted, tcreated>>

\* variant of PGTable.create whose handler never re-raises
PGTableCreateCatchAll(t, mode, rbOk) ==
    LET r == BaseCreate(t, mode) IN
    IF r.exc = NoExc THEN CreateReturns(t, r)
    ELSE IF ~AnyDatabaseError(r.exc) THEN CreateRaises(t, r)
    ELSE CreateRollsBack(t, r, rbOk)

\* PGTable.create(table, provider, connection)
PGTableCreate(t, mode, rbOk) ==
    LET r == BaseCreate(t, mode) IN
    IF r.exc = NoExc THEN CreateReturns(t, r)
    ELSE IF ~AlreadyExists(r.exc) THEN CreateRaises(t, r)
    ELSE CreateRollsBack(t, r, rbOk)

\* the caller ends the transaction: connection.rollback()
CallerRollback ==
    /\ tstate' = "idle"
    /\ tcreated' = {}
    /\ tok' = {}
    /\ tlast' = TCall("rollback", 0, NoExc, "idle", "ok", NoExc)
    /\ UNCHANGED tcommitted

\* the caller ends the transaction: connection.commit(); the database turns
\* the commit of an aborted transaction into a rollback
CallerCommit ==
    /\ tstate' = "idle"
    /\ tcommitted' = IF tstate = "aborted" THEN tcommitted ELSE tcommitted \cup tcreated
    /\ tcreated' = {}
    /\ tok' = {}
    /\ tlast' = TCall("commit", 0, NoExc, "idle", "none", NoExc)

NextTable ==
    \/ \E t \in Tables, mode \in {"no", "db", "iface"}, rbOk \in BOOLEAN :
          PGTableCreate(t, mode, rbOk) /\ UNCHANGED notTable
    \/ CallerRollback /\ UNCHANGED notTable
    \/ CallerCommit /\ UNCHANGED notTable

\* ------------------------------------------------------------------------
\* Python values handed to the converters
\* ------------------------------------------------------------------------
\* Decimal and numeric-string values are counted in tenths, so that the
\* integer 1, the string "1.0" and Decimal("1.0") are different values that
\* denote the same number
PyNone == [kind |-> "None", v |-> 0]
PyInt(n) == [kind |-> "int", v |-> n]
PyDec(t) == [kind |-> "Decimal", v |-> t]
PyStr(t) == [kind |-> "str", v |-> t]
PyBadStr == [kind |-> "badstr", v |-> 0]

\* truth value of "x" in "if x and ...": None and 0 are false
Truthy(x) == x.kind # "None" /\ ~(x.kind \in {"int", "Decimal"} /\ x.v = 0)

VCall(op, val, exc, ret) == [op |-> op, val |-> val, exc |-> exc, ret |-> ret]
NoVCall == VCall("none", PyNone, "none", PyNone)

\* ------------------------------------------------------------------------
\* IntConverter
\* ------------------------------------------------------------------------
IntRange == (-MaxInt)..MaxInt
IntArgs == {PyNone, PyBadStr} \cup {PyInt(n) : n \in IntRange}
IntVals == {PyBadStr} \cup {PyInt(n) : n \in (-MaxInt - 1)..(MaxInt + 1)}

\* IntConverter.init with keyargs min = minArg, max = maxArg
IntConverterInit(minArg, maxArg) ==
    IF minArg.kind # "None" /\ minArg.kind # "int"
    THEN [state |-> "TypeError", min_val |-> PyNone, max_val |-> PyNone]
    ELSE IF maxArg.kind # "None" /\ maxArg.kind # "int"
    THEN [state |-> "TypeError", min_val |-> PyNone, max_val |-> PyNone]
    ELSE [state |-> "ready", min_val |-> minArg, max_val |-> maxArg]

IntStart(minArg, maxArg) ==
    /\ iconv = IntConverterInit(minArg, maxArg)
    /\ ilast = NoVCall

\* IntConverter.validate(val): the exception raised and the value returned
IntValidateResult(c, val) ==
    IF val.kind # "int"
    THEN [exc |-> "TypeError", ret |-> PyNone]
    ELSE IF Truthy(c.min_val) /\ val.v < c.min_val.v
    THEN [exc |-> "ValueError", ret |-> PyNone]
    ELSE IF Truthy(c.max_val) /\ val.v > c.max_val.v
    THEN [exc |-> "ValueError", ret |-> PyNone]
    ELSE [exc |-> "none", ret |-> val]

IntValidate(val) ==
    /\ iconv.state = "ready"
    /\ LET r == IntValidateResult(iconv, val) IN
           ilast' = VCall("validate", val, r.exc, r.ret)
    /\ UNCHANGED iconv

NextInt == \E val \in IntVals : IntValidate(val) /\ UNCHANGED notInt

\* ------------------------------------------------------------------------
\* DecimalConverter
\* ------------------------------------------------------------------------
Tenths == {5 * k : k \in (-MaxHalves)..MaxHalves}
DecArgs == {PyNone} \cup {PyInt(n) : n \in -1..1} \cup {PyDec(t) : t \in Tenths}
DecVals == {PyBadStr} \cup {PyInt(n) : n \in -2..2}
              \cup {PyDec(t) : t \in Tenths} \cup {PyStr(t) : t \in Tenths}

\* Decimal(x): the exception raised and the exact decimal constructed
ToDecimal(x) ==
    IF x.kind = "Decimal" THEN [exc |-> "none", ret |-> x]
    ELSE IF x.kind = "int" THEN [exc |-> "none", ret |-> PyDec(10 * x.v)]
    ELSE IF x.kind = "str" THEN [exc |-> "none", ret |-> PyDec(x.v)]
    ELSE IF x.kind = "badstr" THEN [exc |-> "InvalidOperation", ret |-> PyNone]
    ELSE [exc |-> "TypeError", ret |-> PyNone]

DecFailed(e) ==
    [state |-> e, precision |-> 0, scale |-> 0, min_val |-> PyNone, max_val |-> PyNone]

\* DecimalConverter.init with positional precision, scale and keyargs min, max
DecimalConverterInit(precision, scale, minArg, maxArg) ==
    IF precision <= 0 THEN DecFailed("TypeError")
    ELSE IF scale <= 0 THEN DecFailed("TypeError")
    ELSE IF scale > precision THEN DecFailed("ValueError")
    ELSE [state |-> "ready", precision |-> precision, scale |-> scale,
          min_val |-> IF minArg.kind = "None" THEN PyNone ELSE ToDecimal(minArg).ret,
          max_val |-> IF maxArg.kind = "None" THEN PyNone ELSE ToDecimal(maxArg).ret]

DecStart(precision, scale, minArg, maxArg) ==
    /\ dconv = DecimalConverterInit(precision, scale, minArg, maxArg)
    /\ dlast = NoVCall

\* DecimalConverter.validate(val): both paths return before the bound checks
DecValidateResult(c, val) ==
    IF val.kind = "Decimal"
    THEN [exc |-> "none", ret |-> val]
    ELSE LET d == ToDecimal(val) IN
         IF d.exc = "InvalidOperation"
         THEN [exc |-> "TypeError", ret |-> PyNone]
         ELSE d

DecValidate(val) ==
    /\ dconv.state = "ready"
    /\ LET r == DecValidateResult(dconv, val) IN
           dlast' = VCall("validate", val, r.exc, r.ret)
    /\ UNCHANGED dconv

NextDec == \E val \in DecVals : DecValidate(val) /\ UNCHANGED notDec

\* ------------------------------------------------------------------------
\* BlobConverter: strings are sequences of character codes 0..255
\* ------------------------------------------------------------------------
Backslash == 92
LetterX == 120
BlobBytes == {0, 48, 49, 55, Backslash, LetterX, 200}

RECURSIVE SeqsUpTo(_, _)
SeqsUpTo(S, n) ==
    IF n = 0 THEN {<<>>}
    ELSE LET shorter == SeqsUpTo(S, n - 1) IN
         shorter \cup {Append(q, x) : q \in {r \in shorter : Len(r) = n - 1}, x \in S}

BlobInputs == SeqsUpTo(BlobBytes, MaxBlobLen)

\* oct(i) of Python 2: "0" for 0, else "0" followed by the octal digits
RECURSIVE OctDigits(_)
OctDigits(i) == IF i = 0 THEN <<>> ELSE Append(OctDigits(i \div 8), 48 + (i % 8))

Oct(i) == <<48>> \o OctDigits(i)

\* s[-3:]
Last3(s) == SubSeq(s, Len(s) - 2, Len(s))

\* the table built at import: char2oct[chr(i)]
char2oct(i) ==
    IF i = Backslash THEN <<Backslash, Backslash>>
    ELSE IF 31 < i /\ i < 127 THEN <<i>>
    ELSE <<Backslash>> \o Last3(<<48, 48>> \o Oct(i))

\* BlobConverter.py2sql: "".join(imap(char2oct.__getitem__, val))
RECURSIVE py2sql(_)
py2sql(val) ==
    IF val = <<>> THEN <<>> ELSE char2oct(Head(val)) \o py2sql(Tail(val))

\* val.replace('\\\\', '\\'): leftmost non-overlapping occurrences
RECURSIVE ReplaceDoubled(_)
ReplaceDoubled(s) ==
    IF s = <<>> THEN <<>>
    ELSE IF Len(s) >= 2 /\ s[1] = Backslash /\ s[2] = Backslash
    THEN <<Backslash>> \o ReplaceDoubled(SubSeq(s, 3, Len(s)))
    ELSE <<Head(s)>> \o ReplaceDoubled(Tail(s))

IsOctDigit(ch) == 48 <= ch /\ ch <= 55

\* oct_re.sub(lambda match: chr(int(match.group(0)[-3:], 8)), s); chr raises
\* ValueError above 255
RECURSIVE OctSub(_)
OctSub(s) ==
    IF s = <<>> THEN [exc |-> "none", val |-> <<>>]
    ELSE IF /\ Len(s) >= 4
            /\ s[1] = Backslash
            /\ IsOctDigit(s[2]) /\ IsOctDigit(s[3]) /\ IsOctDigit(s[4])
    THEN LET n == 64 * (s[2] - 48) + 8 * (s[3] - 48) + (s[4] - 48)
             rest == OctSub(SubSeq(s, 5, Len(s))) IN
         IF n > 255 \/ rest.exc # "none"
         THEN [exc |-> "ValueError", val |-> <<>>]
         ELSE [exc |-> "none", val |-> <<n>> \o rest.val]
    ELSE LET rest == OctSub(Tail(s)) IN
         IF rest.exc # "none" THEN rest
         ELSE [exc |-> "none", val |-> <<Head(s)>> \o rest.val]

\* value of a hexadecimal digit, -1 for any other character
HexVal(ch) ==
    IF 48 <= ch /\ ch <= 57 THEN ch - 48
    ELSE IF 97 <= ch /\ ch <= 102 THEN ch - 87
    ELSE IF 65 <= ch /\ ch <= 70 THEN ch - 55
    ELSE -1

\* binascii.unhexlify: TypeError on odd length or a non-hexadecimal digit
RECURSIVE unhexlify(_)
unhexlify(s) ==
    IF s = <<>> THEN [exc |-> "none", val |-> <<>>]
    ELSE IF Len(s) = 1 \/ HexVal(s[1]) < 0 \/ HexVal(s[2]) < 0
    THEN [exc |-> "TypeError", val |-> <<>>]
    ELSE LET rest == unhexlify(SubSeq(s, 3, Len(s))) IN
         IF rest.exc # "none" THEN rest
         ELSE [exc |-> "none", val |-> <<16 * HexVal(s[1]) + HexVal(s[2])>> \o rest.val]

\* BlobConverter.sql2py
sql2py(val) ==
    IF Len(val) >= 2 /\ val[1] = Backslash /\ val[2] = LetterX
    THEN unhexlify(SubSeq(val, 3, Len(val)))
    ELSE OctSub(ReplaceDoubled(val))

BlobStart(b) ==
    /\ bphase = "input"
    /\ bval = b
    /\ bwire = <<>>
    /\ bout = [exc |-> "none", val |-> <<>>]

\* the value is written to the database: converter.py2sql(val)
BlobPy2Sql ==
    /\ bphase = "input"
    /\ bwire' = py2sql(bval)
    /\ bphase' = "encoded"
    /\ UNCHANGED <<bval, bout>>

\* the stored text is read back: converter.sql2py(val)
BlobSql2Py ==
    /\ bphase = "encoded"
    /\ bout' = sql2py(bwire)
    /\ bphase' = "decoded"
    /\ UNCHANGED <<bval, bwire>>

NextBlob ==
    \/ BlobPy2Sql /\ UNCHANGED notBlob
    \/ BlobSql2Py /\ UNCHANGED notBlob

\* ------------------------------------------------------------------------
\* Specifications
\* ------------------------------------------------------------------------
IntDefault == IntStart(PyNone, PyNone)
DecDefault == DecStart(12, 2, PyNone, PyNone)
BlobDefault == BlobStart(<<>>)

Init == PoolInit /\ TableInit /\ IntDefault /\ DecDefault /\ BlobDefault

Spec == Init /\ [][Next]_vars

SpecTable == Init /\ [][NextTable]_vars

InitInt ==
    /\ PoolInit /\ TableInit /\ DecDefault /\ BlobDefault
    /\ \E minArg \in IntArgs, maxArg \in IntArgs : IntStart(minArg, maxArg)

SpecInt == InitInt /\ [][NextInt]_vars

InitDec ==
    /\ PoolInit /\ TableInit /\ IntDefault /\ BlobDefault
    /\ \E precision \in 0..MaxPrec, scale \in 0..MaxPrec,
          minArg \in DecArgs, maxArg \in DecArgs :
          DecStart(precision, scale, minArg, maxArg)

SpecDec == InitDec /\ [][NextDec]_vars

InitBlob ==
    /\ PoolInit /\ TableInit /\ IntDefault /\ DecDefault
    /\ \E b \in BlobInputs : BlobStart(b)

SpecBlob == InitBlob /\ [][NextBlob]_vars

\* ------------------------------------------------------------------------
\* Properties of the Pool
\* ------------------------------------------------------------------------
\* C2: in one thread, a connect that follows an earlier connect with no close
\* and no failed release in between (successful releases may lie in between)
\* returns the handle the earlier connect returned and does not call the
\* connection factory.
ConnectReusesLease ==
    [][\A c \in Contexts :
          (leased[c] # None /\ last' # last /\ last'.ctx = c /\ last'.op = "connect")
             => /\ last'.exc = "none"
                /\ last'.ret = leased[c]
                /\ last'.calls = <<>>
                /\ nconn' = nconn]_vars

\* a connect returned the handle that was already held without opening a
\* second connection
ConnectReusesLeaseWitness ==
    /\ last.op = "connect" /\ last.calls = <<>>
    /\ last.ret # None /\ last.ret = con[last.ctx]
    /\ nconn = 1

\* C3: a release of the held connection calls rollback first and never
\* commits; when it returns normally the connection is still open, still the
\* thread's held handle and has no uncommitted work; the handle a thread
\* holds (the one connect hands out) never carries work that a release left
\* uncommitted.
ReleaseRollsBack ==
    /\ (last.op = "release" /\ last.arg # None /\ last.exc # "AssertionError")
         => /\ Len(last.calls) >= 1
            /\ last.calls[1] = "rollback"
            /\ \A i \in 1..Len(last.calls) : last.calls[i] # "commit"
            /\ last.exc = "none"
                 => /\ con[last.ctx] = last.arg
                    /\ cstate[last.arg] = "open"
                    /\ txn[last.arg] = "idle"
    /\ \A c \in Contexts : con[c] # None => txn[con[c]] # "stale"
    /\ (last.op = "connect" /\ last.ret # None) => txn[last.ret] # "stale"

\* a release returned normally on a second connection, after a release whose
\* rollback failed had left work uncommitted on the first one
ReleaseRollsBackWitness ==
    /\ last.op = "release" /\ last.exc = "none" /\ last.arg # None
    /\ \E h \in Handles : txn[h] = "stale" /\ cstate[h] # "open"

\* C4: when the rollback of a release fails, the connection is closed, the
\* held handle is cleared and the caller sees the rollback's failure, also
\* when closing the connection fails.
FailedRollbackSurfaces ==
    (last.op = "release" /\ last.calls = <<"rollback", "close">>)
       => /\ cstate[last.arg] = "closed"
          /\ con[last.ctx] = None
          /\ last.exc = "RollbackError"

\* C5: every thread has at most one open connection that it opened and has
\* not discarded, the handle it holds is one it opened itself, and no handle
\* is held by two threads.
ContextConfined ==
    \A c \in Contexts :
        /\ Cardinality({h \in Handles : opener[h] = c /\ cstate[h] = "open"}) <= 1
        /\ con[c] # None => opener[con[c]] = c /\ cstate[con[c]] = "open"
        /\ \A d \in Contexts : (c # d /\ con[c] # None) => con[c] # con[d]

\* two threads hold a connection each, and one of them has just tried to
\* release or close the other's connection
ContextConfinedWitness ==
    \E d \in Contexts :
        /\ last.ctx # d /\ last.ctx \in Contexts
        /\ con[last.ctx] # None /\ con[d] # None
        /\ last.op \in {"release", "close"}
        /\ last.arg = con[d]
        /\ last.exc = "AssertionError"

\* ------------------------------------------------------------------------
\* Properties of PGTable.create
\* ------------------------------------------------------------------------
\* C6 as stated: a create whose CREATE fails with 'already exists' raises no
\* error, has issued a rollback, and leaves the transaction not aborted.
CreateExistingNeverRaises ==
    (tlast.op = "create" /\ AlreadyExists(tlast.failure))
       => /\ tlast.exc = NoExc
          /\ tlast.rb # "none"
          /\ tstate # "aborted"

\* C6 amended: a create whose CREATE fails with 'already exists' issues a
\* rollback; when that rollback succeeds the create raises no error and the
\* transaction is not aborted; when it fails, the rollback's failure is what
\* the caller sees.
CreateExistingRecovers ==
    (tlast.op = "create" /\ AlreadyExists(tlast.failure))
       => /\ tlast.rb \in {"ok", "failed"}
          /\ tlast.rb = "ok" => (tlast.exc = NoExc /\ tstate # "aborted")
          /\ tlast.rb = "failed" => tlast.exc = Exc("OperationalError", "rollback failed")

\* the same table was created twice in one transaction and the second create
\* returned normally after its rollback
CreateExistingRecoversWitness ==
    /\ tlast.op = "create" /\ AlreadyExists(tlast.failure)
    /\ tlast.rb = "ok" /\ tlast.exc = NoExc
    /\ tlast.table \in tok /\ tlast.table \notin tcommitted

\* C7: a create whose CREATE fails with anything but 'already exists' raises
\* that same failure, issues no rollback and leaves the transaction as the
\* failed statement left it: aborted when the database rejected it.
CreateOtherFailurePropagates ==
    (tlast.op = "create" /\ tlast.failure # NoExc /\ ~AlreadyExists(tlast.failure))
       => /\ tlast.exc = tlast.failure
          /\ tlast.rb = "none"
          /\ tstate = tlast.after
          /\ tlast.failure.type = "DatabaseError" => tstate = "aborted"

\* the database rejected the CREATE of a table that does not exist
CreateOtherFailurePropagatesWitness ==
    /\ tlast.op = "create"
    /\ tlast.failure = Exc("DatabaseError", "permission denied")
    /\ tlast.exc = tlast.failure
    /\ tstate = "aborted"

\* C10: every table whose create returned normally in the open transaction
\* exists in the connection's view of the database.
CreatedTablesExist == tok \subseteq (tcommitted \cup tcreated)

\* ------------------------------------------------------------------------
\* Properties of the converters
\* ------------------------------------------------------------------------
\* C8: an IntConverter with integer bounds accepts a value equal to min or to
\* max (that the other bound allows) and rejects min-1 and max+1 with a
\* ValueError.
IntBoundsEnforced ==
    (ilast.op = "validate" /\ ilast.val.kind = "int")
       => LET v == ilast.val.v
              hasMin == iconv.min_val.kind = "int"
              hasMax == iconv.max_val.kind = "int"
              inside == /\ hasMin => v >= iconv.min_val.v
                        /\ hasMax => v <= iconv.max_val.v
          IN /\ (hasMin /\ v = iconv.min_val.v /\ inside) => ilast.exc = "none"
             /\ (hasMax /\ v = iconv.max_val.v /\ inside) => ilast.exc = "none"
             /\ (hasMin /\ v = iconv.min_val.v - 1) => ilast.exc = "ValueError"
             /\ (hasMax /\ v = iconv.max_val.v + 1) => ilast.exc = "ValueError"

\* C9: a DecimalConverter with bounds rejects with a ValueError every numeric
\* value below min or above max and returns the exact decimal of every
\* numeric value within the bounds.
DecBoundsEnforced ==
    (dlast.op = "validate" /\ ToDecimal(dlast.val).exc = "none")
       => LET d == ToDecimal(dlast.val).ret
              below == dconv.min_val.kind # "None" /\ d.v < dconv.min_val.v
              above == dconv.max_val.kind # "None" /\ d.v > dconv.max_val.v
          IN IF below \/ above
             THEN dlast.exc = "ValueError"
             ELSE dlast.exc = "none" /\ dlast.ret = d

\* ------------------------------------------------------------------------
\* Properties of the BYTEA codec
\* ------------------------------------------------------------------------
\* C1: sql2py(py2sql(b)) yields exactly the bytes of b, for every byte
\* sequence b.
BlobRoundTrip ==
    bphase = "decoded" => (bout.exc = "none" /\ bout.val = bval)

====
